---- MODULE Spec2Model ----
(***************************************************************************)
(* A model of the multi-modal RAG backend:                                 *)
(*   app/main.py                  the upload / status / chat / delete      *)
(*                                handlers and process_document_async      *)
(*   app/services/rag_service.py  RAGService.process_document,             *)
(*                                _store_chunks_in_batches,                *)
(*                                generate_response and IMAGE_CACHE        *)
(*   app/services/chroma_service.py  the vector store gateway              *)
(*                                                                         *)
(* Spec       the running server: uploads, background ingestion tasks      *)
(*            interleaved step by step, chat and collection deletion.      *)
(* SpecBatch  _store_chunks_in_batches on every chunk sequence of a        *)
(*            bounded length.                                              *)
(* SpecCtx    the text-context assembly of generate_response on bounded    *)
(*            sets of retrieved chunks.                                    *)
(***************************************************************************)
EXTENDS Integers, Sequences, FiniteSets, TLC

VARIABLES
    processing_status,  \* main.py:29          task id -> status record (or absent)
    tasks,              \* main.py:120         the background tasks, one per accepted upload
    IMAGE_CACHE,        \* rag_service.py:13   collection name -> cached images (or absent)
    store,              \* chroma_service.py:17 the persistent vector store
    fresh,              \* collection -> deleted and no ingestion step since
    batch_run,          \* SpecBatch: one run of _store_chunks_in_batches
    ctx_run             \* SpecCtx: one text-context assembly

vars == <<processing_status, tasks, IMAGE_CACHE, store, fresh, batch_run, ctx_run>>

server_vars == <<processing_status, tasks, IMAGE_CACHE, store, fresh>>

other_vars == <<batch_run, ctx_run>>

-----------------------------------------------------------------------------
(* Bounds of the model *)

MaxTasks == 2

MaxBatchChunks == 201

(* Program constants *)

batch_size == 100

max_context_length == 4000

n_results == 5

max_size == 52428800

image_min_side == 50

-----------------------------------------------------------------------------
(* Python strings, kept as run-length encoded character sequences:         *)
(* <<[ch |-> c1, n |-> k1], ...>> with every k >= 1 and adjacent runs of    *)
(* different characters, so that two strings are equal exactly when their  *)
(* encodings are.                                                          *)

Run(c, k) == IF k > 0 THEN <<[ch |-> c, n |-> k]>> ELSE <<>>

RECURSIVE StrLen(_)
StrLen(s) == IF s = <<>> THEN 0 ELSE Head(s).n + StrLen(Tail(s))

StrCat(a, b) ==
    IF a = <<>> THEN b
    ELSE IF b = <<>> THEN a
    ELSE IF a[Len(a)].ch = b[1].ch
         THEN SubSeq(a, 1, Len(a) - 1)
              \o <<[ch |-> b[1].ch, n |-> a[Len(a)].n + b[1].n]>>
              \o Tail(b)
         ELSE a \o b

\* s[:k]
RECURSIVE StrTake(_, _)
StrTake(s, k) ==
    IF k <= 0 \/ s = <<>> THEN <<>>
    ELSE IF Head(s).n >= k THEN <<[ch |-> Head(s).ch, n |-> k]>>
    ELSE <<Head(s)>> \o StrTake(Tail(s), k - Head(s).n)

\* s[k:]
RECURSIVE StrDrop(_, _)
StrDrop(s, k) ==
    IF k <= 0 \/ s = <<>> THEN s
    ELSE IF Head(s).n > k THEN <<[ch |-> Head(s).ch, n |-> Head(s).n - k]>> \o Tail(s)
    ELSE StrDrop(Tail(s), k - Head(s).n)

\* sep.join(parts)
RECURSIVE StrJoin(_, _)
StrJoin(sep, parts) ==
    IF parts = <<>> THEN <<>>
    ELSE IF Len(parts) = 1 THEN parts[1]
    ELSE StrCat(StrCat(parts[1], sep), StrJoin(sep, Tail(parts)))

Min(a, b) == IF a <= b THEN a ELSE b

-----------------------------------------------------------------------------
(* RAGService._store_chunks_in_batches: one iteration of the loop           *)
(*   for i in range(0, total_chunks, batch_size)                            *)
(* computes the three sequences of one add_documents call.                  *)

\* the slice ends one chunk early
batch_end_short(i, total_chunks) == Min(i + batch_size - 1, total_chunks)
batch_end(i, total_chunks) == Min(i + batch_size, total_chunks)

batch_chunks(chunks, i) == SubSeq(chunks, i + 1, batch_end(i, Len(chunks)))

\* batches numbered from 1
batch_id_from_one(i) == i \div batch_size + 1
batch_id(i) == i \div batch_size

batch_metadatas(chunks, filename, i) ==
    [j \in 1..Len(batch_chunks(chunks, i)) |->
        [filename     |-> filename,
         chunk_index  |-> i + (j - 1),
         total_chunks |-> Len(chunks),
         batch_id     |-> batch_id(i)]]

\* f"{collection_name}_{i + j}"
chunk_id(collection_name, k) == <<collection_name, "_", k>>

batch_ids(chunks, collection_name, i) ==
    [j \in 1..Len(batch_chunks(chunks, i)) |-> chunk_id(collection_name, i + (j - 1))]

batch_call(chunks, filename, collection_name, i) ==
    [documents |-> batch_chunks(chunks, i),
     metadatas |-> batch_metadatas(chunks, filename, i),
     ids       |-> batch_ids(chunks, collection_name, i)]

\* range(0, total_chunks, batch_size): the index after i, and whether the loop goes on
range_next(i) == i + batch_size

range_more(i, total_chunks) == i < total_chunks

-----------------------------------------------------------------------------
(* SpecBatch: _store_chunks_in_batches on a chunk sequence of any length up *)
(* to MaxBatchChunks; every add_documents call may fail (StoreError), which *)
(* ends the loop, as the exception leaves the function.                     *)

BatchPatterns == {2, 3}

\* a chunk sequence of n chunks whose texts repeat with period p
MkChunks(n, p) == [k \in 1..n |-> Run("a", 1 + (k % p))]

BatchIdle == [pc |-> "idle"]

BatchInit ==
    batch_run \in {[pc |-> "loop", chunks |-> MkChunks(n, p), i |-> 0,
                    calls |-> <<>>] : n \in 0..MaxBatchChunks, p \in BatchPatterns}

BatchAdd ==
    /\ batch_run.pc = "loop"
    /\ range_more(batch_run.i, Len(batch_run.chunks))
    /\ batch_run' = [batch_run EXCEPT
          !.calls = Append(@, batch_call(batch_run.chunks, "f.txt", "doc", batch_run.i)),
          !.i = range_next(@)]

BatchAddFails ==
    /\ batch_run.pc = "loop"
    /\ range_more(batch_run.i, Len(batch_run.chunks))
    /\ batch_run' = [batch_run EXCEPT !.pc = "raised"]

BatchReturn ==
    /\ batch_run.pc = "loop"
    /\ ~range_more(batch_run.i, Len(batch_run.chunks))
    /\ batch_run' = [batch_run EXCEPT !.pc = "returned"]

-----------------------------------------------------------------------------
(* Uploaded documents.  A document is its filename (the dot-separated       *)
(* components as typed), whether its bytes open in the parser the extension *)
(* selects (fitz.open, docx.Document, bytes.decode), the number of chunks   *)
(* its text splits into (0: blank text) and the number of images embedded   *)
(* in it (PDF only).                                                        *)

CHUNK_SIZE == 1000

FileNames == {<<"Report", "PDF">>, <<"notes", "docx">>, <<"notes", "txt">>,
              <<"setup", "exe">>}

\* str.lower() on the words that occur in FileNames
Lower(w) ==
    CASE w = "PDF" -> "pdf"
      [] w = "Report" -> "report"
      [] OTHER -> w

\* filename.lower().split('.')[-1]
file_extension(filename) == Lower(filename[Len(filename)])

Doc(filename, opens, nchunks, nimages) ==
    [filename |-> filename, opens |-> opens, nchunks |-> nchunks, nimages |-> nimages]

Docs ==
    {Doc(<<"Report", "PDF">>, TRUE, batch_size + 1, 2),   \* text in two batches, images
     Doc(<<"Report", "PDF">>, TRUE, 0, 3),                \* images only
     Doc(<<"notes", "txt">>, TRUE, 1, 0),                 \* one chunk of text
     Doc(<<"notes", "txt">>, TRUE, 0, 0),                 \* blank
     Doc(<<"notes", "docx">>, FALSE, 0, 0),               \* docx.Document raises
     Doc(<<"setup", "exe">>, TRUE, 1, 0)}

\* The images embedded in the document uploaded as task t, in page order:
\* a large RGBA picture, an ordinary RGB one, and icons too small to keep.
EmbeddedImage(t, k) ==
    CASE k % 3 = 1 -> [of |-> t, k |-> k, w |-> 1600, h |-> 1200, mode |-> "RGBA"]
      [] k % 3 = 2 -> [of |-> t, k |-> k, w |-> 100,  h |-> 100,  mode |-> "RGB"]
      [] OTHER     -> [of |-> t, k |-> k, w |-> 40,   h |-> 40,   mode |-> "RGB"]

RECURSIVE KeepLarge(_)
KeepLarge(imgs) ==
    IF imgs = <<>> THEN <<>>
    ELSE IF Head(imgs).w > image_min_side /\ Head(imgs).h > image_min_side
         THEN <<Head(imgs)>> \o KeepLarge(Tail(imgs))
         ELSE KeepLarge(Tail(imgs))

\* _extract_text_and_images_from_pdf: the images kept (both sides > 50 px)
pdf_images(t, doc) == KeepLarge([k \in 1..doc.nimages |-> EmbeddedImage(t, k)])

max_width == 800
max_height == 600

\* _optimize_image: thumbnail to 800x600 keeping the aspect ratio, then RGB or L
_optimize_image(img) ==
    LET big == img.w > max_width \/ img.h > max_height
        byHeight == max_width * img.h >= max_height * img.w
        w2 == IF ~big THEN img.w
              ELSE IF byHeight THEN (max_height * img.w) \div img.h ELSE max_width
        h2 == IF ~big THEN img.h
              ELSE IF byHeight THEN max_height ELSE (max_width * img.h) \div img.w
    IN [img EXCEPT !.w = w2, !.h = h2,
                   !.mode = IF @ \in {"RGB", "L"} THEN @ ELSE "RGB"]

optimized_images(images) == [k \in 1..Len(images) |-> _optimize_image(images[k])]

\* text_splitter.split_text: the chunks of the document uploaded as task t
split_text(t, doc) == [k \in 1..doc.nchunks |-> Run(ToString(t), CHUNK_SIZE)]

\* Lines 41-58 of process_document: the error raised by extraction, or "none"
extract_error(t, doc) ==
    LET ext == file_extension(doc.filename)
    IN IF ext \notin {"pdf", "docx", "txt"} THEN <<"Unsupported file type: ", ext>>
       ELSE IF ~doc.opens THEN <<"cannot open ", ext>>
       ELSE IF doc.nchunks = 0 /\ pdf_images(t, doc) = <<>>
            THEN <<"Document is empty or content could not be extracted.">>
       ELSE <<"none">>

NoError == <<"none">>

\* the text the parser the extension selects reads from the document; any
\* other extension is read with bytes.decode('utf-8') (line 278)
text_content(t, doc) == Run(ToString(t), CHUNK_SIZE * doc.nchunks)

\* extract_text_from_file (lines 264-283): what the call returns or raises.
\* The else branch decodes the bytes like the txt branch; every exception is
\* wrapped (line 283).
extract_text_from_file_result(t, doc) ==
    LET ext == file_extension(doc.filename)
    IN IF doc.opens
       THEN [raised |-> FALSE, value |-> text_content(t, doc)]
       ELSE [raised |-> TRUE,
             value |-> <<"Failed to extract text from ">> \o doc.filename
                       \o <<": ", "cannot open ", ext>>]

StoreError == <<"store error">>

-----------------------------------------------------------------------------
(* Python dicts: functions whose domain is the set of keys present.         *)

Put(d, k, v) == [x \in DOMAIN d \cup {k} |-> IF x = k THEN v ELSE d[x]]

Del(d, k) == [x \in DOMAIN d \ {k} |-> d[x]]

EmptyDict == [x \in {} |-> 0]

\* dict.get(k, default)
Get(d, k, default) == IF k \in DOMAIN d THEN d[k] ELSE default

TaskIds == 1..MaxTasks

\* f"doc_{uuid.uuid4().hex[:8]}": 32 random bits, nothing checks for a repeat
CollectionName(n) == <<"doc_", n>>

HexNames == {"1a2b3c4d", "5e6f7a8b"}

Collections == {CollectionName(n) : n \in HexNames}

-----------------------------------------------------------------------------
(* main.py: the processing status records written by process_document_async *)

\* lines 48-59: the record after the two writes that precede the first await
status_started(collection_name) ==
    [status |-> "processing", message |-> <<"Extracting text from document...">>,
     progress |-> 25, collection_name |-> collection_name]

\* lines 71-75
status_completed(rec, filename) ==
    [rec EXCEPT !.status = "completed",
                !.message = <<"Document '", filename, "' processed successfully!">>,
                !.progress = 100]

\* the handler that drops the error text
status_failed_generic(rec, e) ==
    [rec EXCEPT !.status = "failed",
                !.message = <<"Error processing document">>,
                !.progress = 0]

\* lines 77-82: except Exception as e
status_failed(rec, e) ==
    [rec EXCEPT !.status = "failed",
                !.message = <<"Error processing document: ">> \o e,
                !.progress = 0]

\* lines 139-145: get_processing_status
get_processing_status(task_id) ==
    IF task_id \notin DOMAIN processing_status
    THEN [status_code |-> 404, detail |-> "Task not found"]
    ELSE [status_code |-> 200, body |-> processing_status[task_id]]

-----------------------------------------------------------------------------
(* The state of the server *)

NoTask == [pc |-> "none"]


ServerInit ==
    /\ processing_status = EmptyDict
    /\ tasks = [t \in TaskIds |-> NoTask]
    /\ IMAGE_CACHE = EmptyDict
    /\ store = EmptyDict
    /\ fresh = [c \in Collections |-> FALSE]

Uploaded == {t \in TaskIds : tasks[t].pc # "none"}

Sizes == {1, max_size, max_size + 1}

\* str(HTTPException(status_code, detail)) is "<status_code>: <detail>"
HTTPExceptionStr(status_code, detail) == <<status_code, ": ", detail>>

\* What POST /api/upload answers for a file of `size` bytes (lines 101-136).
\* Lines 108-112 raise HTTPException(413) inside the try block; lines 134-136,
\* except Exception as e, catch it (HTTPException is an Exception) and raise
\* HTTPException(status_code=500, detail=str(e)) in its place.
upload_response(size, filename, task_id, collection_name) ==
    IF size > max_size
    THEN [status_code |-> 500, accepted |-> FALSE,
          detail |-> HTTPExceptionStr(413, "File too large. Maximum size is 50MB.")]
    ELSE [status_code |-> 200, accepted |-> TRUE,
          message |-> <<"File '", filename, "' upload started.">>,
          task_id |-> task_id, collection_name |-> collection_name]

\* a task id that repeats
RepeatedTaskId == Min(1, MaxTasks)

\* uuid.uuid4() (line 117): an id no earlier upload was given
NewTaskId == Cardinality(Uploaded) + 1

\* POST /api/upload (lines 93-136): an accepted upload schedules the background
\* task (lines 120-126); a rejected one changes nothing.
upload_document ==
    \E size \in Sizes, doc \in Docs, n \in HexNames :
       /\ NewTaskId \in TaskIds
       /\ LET r == upload_response(size, doc.filename, NewTaskId, CollectionName(n))
          IN IF r.accepted
             THEN tasks' = [tasks EXCEPT ![r.task_id] =
                     [pc |-> "scheduled", doc |-> doc,
                      collection_name |-> r.collection_name,
                      i |-> 0, handle |-> FALSE, error |-> NoError,
                      alone |-> TRUE]]
             ELSE UNCHANGED tasks
       /\ UNCHANGED <<processing_status, IMAGE_CACHE, store, fresh, other_vars>>

-----------------------------------------------------------------------------
(* chroma_service.py: the vector store.  store maps the name of each        *)
(* existing collection to its rows, in the order they were first added.     *)

NewCollection == [rows |-> <<>>]

\* get_or_create_collection (lines 34-37), when the client call succeeds
get_or_create_collection(st, name) ==
    IF name \in DOMAIN st THEN st ELSE Put(st, name, NewCollection)

CallRows(call) ==
    [j \in 1..Len(call.ids) |->
        [id |-> call.ids[j], document |-> call.documents[j],
         metadata |-> call.metadatas[j]]]

RowIds(rows) == {rows[k].id : k \in 1..Len(rows)}

HasDuplicate(rows, call) == \E j \in 1..Len(call.ids) : call.ids[j] \in RowIds(rows)

\* What collection.add does with an id the collection already holds depends on
\* the chromadb release: it replaces the row ("overwrite"), keeps the old row
\* ("ignore"), or raises.
\* collection.add (lines 53-57) when it does not raise
collection_add(rows, call, policy) ==
    LET new == CallRows(call)
        IN IF policy = "overwrite"
           THEN [k \in 1..Len(rows) |->
                    IF \E j \in 1..Len(new) : new[j].id = rows[k].id
                    THEN new[CHOOSE j \in 1..Len(new) : new[j].id = rows[k].id]
                    ELSE rows[k]]
                \o SelectSeq(new, LAMBDA r : r.id \notin RowIds(rows))
           ELSE rows \o SelectSeq(new, LAMBDA r : r.id \notin RowIds(rows))

\* collection.query (lines 76-79): the n_results nearest documents.  The ranking
\* is the store's; two rankings stand for it.
Rankings == {"oldest", "newest"}

collection_query(rows, ranking) ==
    LET k == Min(n_results, Len(rows))
    IN [j \in 1..k |-> IF ranking = "oldest" THEN rows[j].document
                        ELSE rows[Len(rows) - j + 1].document]

-----------------------------------------------------------------------------
(* process_document_async and RAGService.process_document, step by step     *)

Task(t) == tasks[t]

Touch(c) == [fresh EXCEPT ![c] = FALSE]

\* process_document is running for task t
InFlight(t) == Task(t).pc \in {"extract", "store", "batch"}

\* the tasks other than t that are ingesting into the same collection right now
Overlapping(t) ==
    {u \in TaskIds \ {t} : InFlight(u) /\ Task(u).collection_name = Task(t).collection_name}

\* main.py lines 48-59, then the hand-over to the thread pool (lines 62-69).
\* The field alone records whether any other ingestion into the same collection
\* ran while this one did.
StartTask(t) ==
    /\ Task(t).pc = "scheduled"
    /\ processing_status' =
          Put(processing_status, t, status_started(Task(t).collection_name))
    /\ tasks' = [u \in TaskIds |->
          IF u = t THEN [tasks[t] EXCEPT !.pc = "extract", !.alone = Overlapping(t) = {}]
          ELSE IF u \in Overlapping(t) THEN [tasks[u] EXCEPT !.alone = FALSE]
          ELSE tasks[u]]
    /\ UNCHANGED <<IMAGE_CACHE, store, fresh, other_vars>>

\* a cache write that adds to the entry already there
cache_images_extending(cache, collection_name, images) ==
    IF images # <<>>
    THEN Put(cache, collection_name,
             Get(cache, collection_name, <<>>) \o optimized_images(images))
    ELSE cache

\* lines 61-65 of process_document: if images: IMAGE_CACHE[collection_name] = ...
cache_images(cache, collection_name, images) ==
    IF images # <<>>
    THEN Put(cache, collection_name, optimized_images(images))
    ELSE cache

\* rag_service.py lines 40-72: extraction, the emptiness check, the image cache
ExtractAndCache(t) ==
    /\ Task(t).pc = "extract"
    /\ LET doc == Task(t).doc
           c == Task(t).collection_name
           e == extract_error(t, doc)
       IN IF e # NoError
          THEN /\ tasks' = [tasks EXCEPT ![t].pc = "returned", ![t].error = e]
               /\ UNCHANGED <<IMAGE_CACHE, fresh>>
          ELSE /\ IMAGE_CACHE' = cache_images(IMAGE_CACHE, c, pdf_images(t, doc))
               /\ tasks' = [tasks EXCEPT ![t].pc =
                               IF split_text(t, doc) # <<>> THEN "store" ELSE "returned"]
               /\ fresh' = Touch(c)
    /\ UNCHANGED <<processing_status, store, other_vars>>

\* line 76: chroma_service.get_or_create_collection(collection_name)
GetOrCreate(t) ==
    /\ Task(t).pc = "store"
    /\ \E ok \in BOOLEAN :
          IF ok
          THEN /\ store' = get_or_create_collection(store, Task(t).collection_name)
               /\ tasks' = [tasks EXCEPT ![t].pc = "batch", ![t].handle = TRUE,
                                         ![t].i = 0]
               /\ fresh' = Touch(Task(t).collection_name)
          ELSE /\ tasks' = [tasks EXCEPT ![t].pc = "returned", ![t].error = StoreError]
               /\ UNCHANGED <<store, fresh>>
    /\ UNCHANGED <<processing_status, IMAGE_CACHE, other_vars>>

\* What one add_documents call (chroma_service.py lines 52-61) can do: raise
\* (the store fails, the collection the handle names was deleted, or a repeated
\* id under the "error" policy), or add the rows under one of the other policies.
AddOutcomes(t, call) ==
    LET c == Task(t).collection_name
    IN IF ~(Task(t).handle /\ c \in DOMAIN store) THEN {"raise"}
       ELSE IF HasDuplicate(store[c].rows, call) THEN {"raise", "overwrite", "ignore"}
       ELSE {"raise", "ignore"}

\* an iteration that undoes the earlier batches when its add_documents fails
AddBatchRollingBack(t) ==
    /\ Task(t).pc = "batch"
    /\ LET c == Task(t).collection_name
           chunks == split_text(t, Task(t).doc)
           call == batch_call(chunks, Task(t).doc.filename, c, Task(t).i)
       IN \E outcome \in AddOutcomes(t, call) :
            IF outcome = "raise"
            THEN /\ tasks' = [tasks EXCEPT ![t].pc = "returned",
                                           ![t].error = StoreError]
                 /\ store' = IF c \in DOMAIN store
                             THEN [store EXCEPT ![c].rows = <<>>] ELSE store
                 /\ UNCHANGED fresh
            ELSE /\ store' = [store EXCEPT ![c].rows = collection_add(@, call, outcome)]
                 /\ tasks' = [tasks EXCEPT
                       ![t].i = range_next(@),
                       ![t].pc = IF range_more(range_next(Task(t).i), Len(chunks))
                                 THEN "batch" ELSE "returned"]
                 /\ fresh' = Touch(c)
    /\ UNCHANGED <<processing_status, IMAGE_CACHE, other_vars>>

\* One iteration of the loop of _store_chunks_in_batches (lines 162-181)
AddBatch(t) ==
    /\ Task(t).pc = "batch"
    /\ LET c == Task(t).collection_name
           chunks == split_text(t, Task(t).doc)
           call == batch_call(chunks, Task(t).doc.filename, c, Task(t).i)
       IN \E outcome \in AddOutcomes(t, call) :
            IF outcome = "raise"
            THEN /\ tasks' = [tasks EXCEPT ![t].pc = "returned",
                                           ![t].error = StoreError]
                 /\ UNCHANGED <<store, fresh>>
            ELSE /\ store' = [store EXCEPT ![c].rows = collection_add(@, call, outcome)]
                 /\ tasks' = [tasks EXCEPT
                       ![t].i = range_next(@),
                       ![t].pc = IF range_more(range_next(Task(t).i), Len(chunks))
                                 THEN "batch" ELSE "returned"]
                 /\ fresh' = Touch(c)
    /\ UNCHANGED <<processing_status, IMAGE_CACHE, other_vars>>

\* main.py lines 71-83: the coroutine resumes after run_in_executor and writes
\* the outcome into the record; .update on a missing record is a KeyError, in
\* the try block and again in the except block, which then leaves the coroutine.
FinishTask(t) ==
    /\ Task(t).pc = "returned"
    /\ IF t \in DOMAIN processing_status
       THEN /\ processing_status' = [processing_status EXCEPT ![t] =
                  IF Task(t).error = NoError
                  THEN status_completed(@, Task(t).doc.filename)
                  ELSE status_failed(@, Task(t).error)]
            /\ tasks' = [tasks EXCEPT ![t].pc = "done"]
       ELSE /\ tasks' = [tasks EXCEPT ![t].pc = "raised"]
            /\ UNCHANGED processing_status
    /\ UNCHANGED <<IMAGE_CACHE, store, fresh, other_vars>>

-----------------------------------------------------------------------------
(* RAGService.generate_response *)

Separator == <<[ch |-> "\n", n |-> 2], [ch |-> "-", n |-> 3], [ch |-> "\n", n |-> 2]>>

Ellipsis == Run(".", 3)

\* the comparison off by one: a context of exactly 4000 characters is cut
truncate_context_at_limit(text_context) ==
    IF StrLen(text_context) >= max_context_length
    THEN StrCat(StrTake(text_context, max_context_length), Ellipsis)
    ELSE text_context

\* lines 205-207
truncate_context(text_context) ==
    IF StrLen(text_context) > max_context_length
    THEN StrCat(StrTake(text_context, max_context_length), Ellipsis)
    ELSE text_context

\* lines 200-207: the text context built from results['documents'][0]
build_text_context(relevant_chunks) ==
    IF relevant_chunks # <<>>
    THEN truncate_context(StrJoin(Separator, relevant_chunks))
    ELSE <<>>

NoTextFallback ==
    "I'm sorry, I couldn't generate a response. Please try rephrasing your question."

ErrorFallback ==
    "I encountered an error while generating the response. Please try again."

\* the handler that logs and re-raises
generate_response_reraise == [raised |-> TRUE, value |-> "StoreError"]

\* lines 242-244: except Exception as e
generate_response_except == [raised |-> FALSE, value |-> ErrorFallback]

\* lines 237-240
generate_response_return(text) ==
    [raised |-> FALSE, value |-> IF text # "" THEN text ELSE NoTextFallback]

ModelOutcomes == {"An answer.", "", "raises"}

StoreFailures == {"none", "get_or_create_collection", "query"}

NoPrompt == [sent |-> FALSE]

\* The store after the call of line 192, which creates a missing collection
store_after_chat(collection_name, store_failure) ==
    IF store_failure = "get_or_create_collection" THEN store
    ELSE get_or_create_collection(store, collection_name)

\* lines 199-229: the text context and the images that go into prompt_parts
chat_prompt(collection_name, ranking) ==
    LET rows == store_after_chat(collection_name, "none")[collection_name].rows
    IN [sent |-> TRUE,
        text_context |-> build_text_context(collection_query(rows, ranking)),
        images |-> Get(IMAGE_CACHE, collection_name, <<>>)]

\* What generate_response(query, collection_name) does in the current state
\* (lines 190-244): the prompt handed to the model, if the store calls went
\* through, and what the caller gets.
chat_result(collection_name, store_failure, ranking, model) ==
    [prompt   |-> IF store_failure = "none"
                  THEN chat_prompt(collection_name, ranking) ELSE NoPrompt,
     returned |-> IF store_failure # "none" \/ model = "raises"
                  THEN generate_response_except
                  ELSE generate_response_return(model)]

\* POST /api/chat -> generate_response: what it leaves behind is the collection
\* that get_or_create_collection created
generate_response(collection_name) ==
    \E store_failure \in StoreFailures :
       /\ store' = store_after_chat(collection_name, store_failure)
       /\ UNCHANGED <<processing_status, tasks, IMAGE_CACHE, fresh, other_vars>>

-----------------------------------------------------------------------------
(* DELETE /api/collections/{collection_name} (main.py lines 183-191) over    *)
(* ChromaService.delete_collection (lines 109-114): the client raises for a  *)
(* collection that does not exist, and the handler answers 500.              *)

delete_response(collection_name) ==
    IF collection_name \in DOMAIN store
    THEN [status_code |-> 200,
          message |-> <<"Collection '", collection_name, "' deleted successfully">>]
    ELSE [status_code |-> 500, detail |-> <<"collection does not exist">>]

delete_collection(collection_name) ==
    /\ IF delete_response(collection_name).status_code = 200
       THEN /\ store' = Del(store, collection_name)
            /\ tasks' = [t \in TaskIds |->
                  IF tasks[t].pc # "none" /\ tasks[t].collection_name = collection_name
                  THEN [tasks[t] EXCEPT !.handle = FALSE]
                  ELSE tasks[t]]
            /\ fresh' = [fresh EXCEPT ![collection_name] = TRUE]
       ELSE UNCHANGED <<store, tasks, fresh>>
    /\ UNCHANGED <<processing_status, IMAGE_CACHE, other_vars>>

\* GET /api/status/{task_id}: reads the record, changes nothing
status_query(task_id) ==
    /\ get_processing_status(task_id).status_code \in {200, 404}
    /\ UNCHANGED vars

\* RAGService.extract_text_from_file: reads the document, changes nothing
extract_text_from_file(t, doc) ==
    /\ extract_text_from_file_result(t, doc).raised \in BOOLEAN
    /\ UNCHANGED vars

-----------------------------------------------------------------------------
(* The running server *)

CtxIdle == [pc |-> "idle"]

Init ==
    /\ ServerInit
    /\ batch_run = BatchIdle
    /\ ctx_run = CtxIdle

Next ==
    \/ upload_document
    \/ \E t \in TaskIds : StartTask(t)
    \/ \E t \in TaskIds : ExtractAndCache(t)
    \/ \E t \in TaskIds : GetOrCreate(t)
    \/ \E t \in TaskIds : AddBatch(t)
    \/ \E t \in TaskIds : FinishTask(t)
    \/ \E c \in Collections : generate_response(c)
    \/ \E c \in Collections : delete_collection(c)
    \/ \E t \in TaskIds : status_query(t)
    \/ \E t \in TaskIds, doc \in Docs : extract_text_from_file(t, doc)

Spec == Init /\ [][Next]_vars

-----------------------------------------------------------------------------
(* _store_chunks_in_batches alone, on every chunk sequence up to            *)
(* MaxBatchChunks chunks                                                    *)

InitBatch ==
    /\ ServerInit
    /\ BatchInit
    /\ ctx_run = CtxIdle

NextBatch ==
    \/ BatchAdd /\ UNCHANGED <<server_vars, ctx_run>>
    \/ BatchAddFails /\ UNCHANGED <<server_vars, ctx_run>>
    \/ BatchReturn /\ UNCHANGED <<server_vars, ctx_run>>

SpecBatch == InitBatch /\ [][NextBatch]_vars

-----------------------------------------------------------------------------
(* The text context of generate_response alone, on every sequence of up to  *)
(* n_results retrieved chunks drawn from CtxChunks.  The lengths are chosen *)
(* so that joined contexts of 3998..4001 characters and far longer occur.   *)

CtxChunks == {<<>>, Run("a", 1), Run("a", 794), Run("b", 795), Run(".", 1000),
              Run("a", 4000), Run("b", 4001)}

InitCtx ==
    /\ ServerInit
    /\ batch_run = BatchIdle
    /\ \E k \in 0..n_results :
          ctx_run \in {[pc |-> "retrieved", relevant_chunks |-> cs] :
                          cs \in [1..k -> CtxChunks]}

\* lines 199-207
CtxBuild ==
    /\ ctx_run.pc = "retrieved"
    /\ ctx_run' = [pc |-> "built",
                   relevant_chunks |-> ctx_run.relevant_chunks,
                   text_context |-> build_text_context(ctx_run.relevant_chunks)]
    /\ UNCHANGED <<server_vars, batch_run>>

NextCtx == CtxBuild

SpecCtx == InitCtx /\ [][NextCtx]_vars

-----------------------------------------------------------------------------
(* Properties *)

StatusValues == {"processing", "completed", "failed"}

StatusWellFormed ==
    \A t \in DOMAIN processing_status :
        /\ processing_status[t].status \in StatusValues
        /\ processing_status[t].progress \in 0..100

StatusStep ==
    \A t \in DOMAIN processing_status :
        /\ t \in DOMAIN processing_status'
        /\ processing_status[t].status \in {"completed", "failed"}
              => processing_status'[t] = processing_status[t]
        /\ processing_status'[t].status # processing_status[t].status
              => /\ processing_status[t].status = "processing"
                 /\ processing_status'[t].status \in {"completed", "failed"}

\* C1: every status record has a status among processing/completed/failed and
\* a progress within 0..100; a record is never removed, its status changes only
\* from processing to completed or failed, and a completed or failed record is
\* never changed again by any step of any task.
C1_StatusLifecycle == [] StatusWellFormed /\ [][StatusStep]_vars

C1_Witness ==
    \E t \in TaskIds, u \in TaskIds :
        /\ Task(t).pc = "done" /\ Task(u).pc = "done"
        /\ processing_status[t].status = "completed"
        /\ processing_status[u].status = "failed"

\* C2: from the moment upload_document has returned a task id, a status query
\* for that id finds a record, whether or not the background task has started.
C2_RecordFromUpload ==
    \A t \in Uploaded : get_processing_status(t).status_code = 200

\* C3: a task whose ingestion raised ends with status failed and a message that
\* carries the error text, never with completed, and no exception leaves
\* process_document_async.
C3_ErrorsCaptured ==
    \A t \in TaskIds :
        /\ Task(t).pc # "raised"
        /\ Task(t).pc = "done" =>
              /\ Task(t).error # NoError =>
                    /\ processing_status[t].status = "failed"
                    /\ processing_status[t].message =
                          <<"Error processing document: ">> \o Task(t).error
              /\ processing_status[t].status = "completed" => Task(t).error = NoError

C3_Witness ==
    \E t \in TaskIds, u \in TaskIds :
        /\ Task(t).pc = "done" /\ Task(t).error = StoreError
        /\ processing_status[t].status = "failed"
        /\ Task(u).pc = "done"
        /\ Task(u).error = <<"Document is empty or content could not be extracted.">>
        /\ processing_status[u].status = "failed"

RECURSIVE Flatten(_)
Flatten(ss) == IF ss = <<>> THEN <<>> ELSE Head(ss) \o Flatten(Tail(ss))

CallDocuments == [k \in 1..Len(batch_run.calls) |-> batch_run.calls[k].documents]

\* C4: every add_documents call carries 1..100 documents and as many metadatas
\* and ids; when no call failed and the function has returned, it made
\* ceil(N/100) calls whose documents, concatenated in call order, are the
\* original chunk sequence.
C4_Batching ==
    batch_run.pc # "idle" =>
        /\ \A k \in 1..Len(batch_run.calls) :
              LET call == batch_run.calls[k]
              IN /\ Len(call.documents) \in 1..100
                 /\ Len(call.metadatas) = Len(call.documents)
                 /\ Len(call.ids) = Len(call.documents)
        /\ batch_run.pc = "returned" =>
              /\ Len(batch_run.calls) = (Len(batch_run.chunks) + 99) \div 100
              /\ Flatten(CallDocuments) = batch_run.chunks

C4_Witness ==
    /\ batch_run.pc = "returned"
    /\ Len(batch_run.chunks) = 201
    /\ Len(batch_run.calls) = 3
    /\ Len(batch_run.calls[3].documents) = 1

IngestsInto(c) == {t \in Uploaded : Task(t).collection_name = c}

Finished(t) == Task(t).pc \in {"returned", "done"}

Rows(c) == store[c].rows

CountMatches(c) ==
    \A k \in 1..Len(Rows(c)) : Rows(c)[k].metadata.total_chunks = Len(Rows(c))

RowsNumbered(c) ==
    \A k \in 1..Len(Rows(c)) :
        LET m == Rows(c)[k].metadata
        IN /\ m.chunk_index = k - 1
           /\ Rows(c)[k].id = <<c, "_", m.chunk_index>>
           /\ m.batch_id = m.chunk_index \div 100

BatchIdsMonotone(c) ==
    /\ Rows(c) # <<>> => Rows(c)[1].metadata.batch_id = 0
    /\ \A k \in 1..(Len(Rows(c)) - 1) :
          Rows(c)[k].metadata.batch_id <= Rows(c)[k + 1].metadata.batch_id

\* C5 as stated: in every collection, once all the ingestions into it have
\* finished, the number of chunks stored equals the total_chunks recorded in
\* every chunk, the chunk with index k has id '{collection}_{k}' and
\* batch_id k // 100, and batch ids start at 0 and never decrease.
C5_CountAfterAnyIngestions ==
    \A c \in DOMAIN store :
        (\A t \in IngestsInto(c) : Finished(t)) =>
            CountMatches(c) /\ RowsNumbered(c) /\ BatchIdsMonotone(c)

\* C5 amended: in every collection at every moment the chunk with index k has
\* id '{collection}_{k}' and batch_id k // 100, and batch ids start at 0 and
\* never decrease in storage order; and in a collection that exactly one
\* ingestion has written to, once that ingestion has succeeded, the number of
\* chunks stored equals the total_chunks recorded in every chunk.
C5_CountAfterOneIngestion ==
    \A c \in DOMAIN store :
        /\ RowsNumbered(c)
        /\ BatchIdsMonotone(c)
        /\ (\E t \in TaskIds :
               IngestsInto(c) = {t} /\ Finished(t) /\ Task(t).error = NoError)
              => CountMatches(c)

C5_Witness ==
    \E c \in DOMAIN store, t \in TaskIds :
        /\ IngestsInto(c) = {t} /\ Task(t).pc = "done" /\ Task(t).error = NoError
        /\ Len(Rows(c)) = 101
        /\ Rows(c)[101].metadata.batch_id = 1

\* C6: whatever the store and the model do, generate_response hands its caller
\* a string and raises nothing: the error fallback when a store call or the
\* model raises, the no-text fallback when the model returns no text, and the
\* model's text otherwise.
C6_AlwaysAString ==
    \A c \in Collections, f \in StoreFailures, r \in Rankings, m \in ModelOutcomes :
        LET got == chat_result(c, f, r, m).returned
        IN /\ ~got.raised
           /\ got.value \in STRING
           /\ (f # "none" \/ m = "raises") => got.value = ErrorFallback
           /\ (f = "none" /\ m = "") => got.value = NoTextFallback
           /\ (f = "none" /\ m \notin {"", "raises"}) => got.value = m

\* a collection only a chat request can have created, beside one with chunks
C6_Witness ==
    \E c \in DOMAIN store, d \in DOMAIN store :
        /\ IngestsInto(c) = {} /\ Rows(c) = <<>>
        /\ Rows(d) # <<>>
        /\ chat_result(d, "none", "oldest", "raises").prompt.text_context # <<>>
        /\ chat_result(d, "none", "oldest", "raises").returned.value = ErrorFallback

\* C7: once a collection has been deleted, with every ingestion into it over
\* and until something is ingested into it again, the prompt built for a query
\* on it holds no text and no images;
\* deleting a collection that does not exist is answered with an error response.
C7_NothingStaleAfterDelete ==
    \A c \in Collections :
        /\ (fresh[c] /\ \A t \in IngestsInto(c) : Task(t).pc = "done") =>
              \A r \in Rankings :
                  /\ chat_prompt(c, r).text_context = <<>>
                  /\ chat_prompt(c, r).images = <<>>
        /\ c \notin DOMAIN store => delete_response(c).status_code = 500

\* C8: when process_document returns successfully for a task that no other
\* ingestion into the same collection overlapped, the images cached under the
\* collection are exactly the optimized images of that task's document (none,
\* if it has none).
C8_CacheIsLastIngestion ==
    [][\A t \in TaskIds :
          (/\ InFlight(t)
           /\ tasks'[t].pc = "returned"
           /\ tasks'[t].error = NoError
           /\ tasks'[t].alone)
          => Get(IMAGE_CACHE', Task(t).collection_name, <<>>)
                = optimized_images(pdf_images(t, Task(t).doc))]_vars

\* C9: an upload of more than 50 MB is answered with the size-limit rejection
\* (413) and schedules nothing; an upload of at most 50 MB is accepted.
C9_OversizeRejected ==
    \A size \in Sizes, doc \in Docs, n \in HexNames :
        LET r == upload_response(size, doc.filename, NewTaskId, CollectionName(n))
        IN /\ size > 50 * 1024 * 1024 => ~r.accepted /\ r.status_code = 413
           /\ size <= 50 * 1024 * 1024 => r.accepted

CtxJoined == StrJoin(Separator, ctx_run.relevant_chunks)

\* C10: the text context is at most 4000 + 3 characters long; a joined context
\* of more than 4000 characters becomes its first 4000 characters followed by
\* "...", and one of at most 4000 characters is passed unchanged.
C10_ContextBounded ==
    ctx_run.pc = "built" =>
        /\ StrLen(ctx_run.text_context) <= 4000 + 3
        /\ StrLen(CtxJoined) > 4000 =>
              /\ StrLen(ctx_run.text_context) = 4000 + 3
              /\ StrTake(ctx_run.text_context, 4000) = StrTake(CtxJoined, 4000)
              /\ StrDrop(ctx_run.text_context, 4000) = <<[ch |-> ".", n |-> 3]>>
        /\ StrLen(CtxJoined) <= 4000 => ctx_run.text_context = CtxJoined

C10_Witness ==
    /\ ctx_run.pc = "built"
    /\ Len(ctx_run.relevant_chunks) = 5
    /\ StrLen(CtxJoined) = 4001
    /\ StrLen(ctx_run.text_context) = 4003

-----------------------------------------------------------------------------
\* the extensions the dispatch knows (lines 44-52 and 271-276)
SupportedExtensions == {"pdf", "docx", "txt"}

UnsupportedFormat(doc) ==
    <<"Unsupported file type: ", file_extension(doc.filename)>>

\* process_document has just left extraction for task t
ExtractionEnds(t) == Task(t).pc = "extract" /\ Task(t)'.pc # "extract"

\* C11: in both extraction entry points a filename whose extension is not pdf,
\* docx or txt fails with the unsupported-format error and yields no text, and
\* the failure leaves the image cache and the vector store unchanged.  Stated
\* on the step in which process_document dispatches on an uploaded document,
\* and on extract_text_from_file given the same document.
C11_UnsupportedRejected ==
    [][\A t \in TaskIds :
         (ExtractionEnds(t) /\ file_extension(Task(t).doc.filename) \notin SupportedExtensions)
         => /\ Task(t)'.error = UnsupportedFormat(Task(t).doc)
            /\ Task(t)'.pc = "returned"
            /\ UNCHANGED <<IMAGE_CACHE, store>>
            /\ extract_text_from_file_result(t, Task(t).doc).raised
            /\ extract_text_from_file_result(t, Task(t).doc).value
                  = UnsupportedFormat(Task(t).doc)]_vars

\* The part of C11 about process_document alone
C11_ProcessDocumentRejects ==
    [][\A t \in TaskIds :
         (ExtractionEnds(t) /\ file_extension(Task(t).doc.filename) \notin SupportedExtensions)
         => /\ Task(t)'.error = UnsupportedFormat(Task(t).doc)
            /\ Task(t)'.pc = "returned"
            /\ UNCHANGED <<IMAGE_CACHE, store>>]_vars

-----------------------------------------------------------------------------
\* the add_documents call of task t for a batch after the first has just raised
BatchFails(t) ==
    /\ Task(t).pc = "batch" /\ Task(t).i >= batch_size
    /\ Task(t)'.pc = "returned"
    /\ Task(t)'.error = StoreError

\* the failing call and the write of the failed status change neither the
\* store nor the image cache, and the loop index stays where it was
FailureKeepsWrites ==
    \A t \in TaskIds :
        /\ BatchFails(t) =>
              /\ UNCHANGED <<store, IMAGE_CACHE>>
              /\ Task(t)'.i = Task(t).i
        /\ (Task(t).pc = "returned" /\ Task(t).error # NoError) =>
              /\ Task(t)'.pc \in {"returned", "done"}
              /\ Task(t)'.i = Task(t).i
              /\ Task(t)'.pc = "done" =>
                    /\ processing_status'[t].status = "failed"
                    /\ UNCHANGED <<store, IMAGE_CACHE>>

\* task t failed in a batch after the first, and nothing else wrote to or
\* deleted its collection
FailedAfterFirstBatch(t) ==
    /\ t \in Uploaded
    /\ Task(t).pc \in {"returned", "done"}
    /\ Task(t).error = StoreError
    /\ Task(t).i >= batch_size
    /\ Task(t).handle
    /\ IngestsInto(Task(t).collection_name) = {t}

\* the chunks of batches 0..k-1 of task t, and its images, are where it put them
PartialWritesRemain(t) ==
    LET c == Task(t).collection_name
        chunks == split_text(t, Task(t).doc)
        images == pdf_images(t, Task(t).doc)
    IN /\ c \in DOMAIN store
       /\ Len(Rows(c)) = Task(t).i
       /\ \A k \in 1..Task(t).i :
             /\ Rows(c)[k].document = chunks[k]
             /\ Rows(c)[k].id = chunk_id(c, k - 1)
       /\ images # <<>> =>
             /\ c \in DOMAIN IMAGE_CACHE
             /\ IMAGE_CACHE[c] = optimized_images(images)
       /\ Task(t).pc = "done" => processing_status[t].status = "failed"

\* C12: when the add_documents call for batch k >= 1 fails, the task ends in
\* failed, no further batch is attempted, and the chunks of batches 0..k-1
\* already in the vector store and the image cache entry written earlier in
\* the same ingestion remain in place: the failing step changes neither, and
\* as long as nothing else writes to or deletes the collection they are found
\* there afterwards.
C12_NoRollback ==
    /\ [](\A t \in TaskIds : FailedAfterFirstBatch(t) => PartialWritesRemain(t))
    /\ [][FailureKeepsWrites]_vars

C12_Witness ==
    \E t \in TaskIds :
        /\ FailedAfterFirstBatch(t)
        /\ Task(t).pc = "done"
        /\ Task(t).i = batch_size
        /\ Len(split_text(t, Task(t).doc)) = batch_size + 1
        /\ Len(Rows(Task(t).collection_name)) = batch_size
        /\ Len(IMAGE_CACHE[Task(t).collection_name]) = 2
        /\ processing_status[t].status = "failed"

-----------------------------------------------------------------------------
\* the optimized images process_document caches for task t
CachedBy(t) == optimized_images(pdf_images(t, Task(t).doc))

\* task t has executed line 65 for collection c
HasCached(t, c) ==
    /\ t \in IngestsInto(c)
    /\ Task(t).pc \notin {"scheduled", "extract"}
    /\ extract_error(t, Task(t).doc) = NoError
    /\ CachedBy(t) # <<>>

\* every entry is the whole image sequence of one ingestion into that name
CacheEntriesWhole ==
    \A c \in DOMAIN IMAGE_CACHE :
        \E t \in TaskIds : HasCached(t, c) /\ IMAGE_CACHE[c] = CachedBy(t)

\* task t executes line 65 for collection c in this step
Caches(t, c) ==
    /\ ExtractionEnds(t)
    /\ Task(t).collection_name = c
    /\ extract_error(t, Task(t).doc) = NoError
    /\ CachedBy(t) # <<>>

\* a step in which an ingestion caches images leaves exactly its images in the
\* entry; any other step leaves the entry as it was
LastWriterWins ==
    \A c \in Collections :
        IF \E t \in TaskIds : Caches(t, c)
        THEN \A t \in TaskIds : Caches(t, c) =>
                c \in DOMAIN IMAGE_CACHE' /\ IMAGE_CACHE'[c] = CachedBy(t)
        ELSE c \in DOMAIN IMAGE_CACHE' =>
                c \in DOMAIN IMAGE_CACHE /\ IMAGE_CACHE'[c] = IMAGE_CACHE[c]

\* C13: under every interleaving of the ingestions into one collection name,
\* the image cache entry for that name is at every moment absent or equal to
\* the complete optimized image sequence of exactly one ingestion into that
\* name, the one that cached last, never a mixture of the images of different
\* ingestions; the batched chunk writes of those ingestions may interleave.
C13_CacheLastWriterWins ==
    /\ [] CacheEntriesWhole
    /\ [][LastWriterWins]_vars

\* two ingestions into one name, both with images, both between their first
\* and second batch; the entry holds the images of the one that cached second
C13_Witness ==
    \E t \in TaskIds, u \in TaskIds, c \in DOMAIN store :
        /\ t # u
        /\ HasCached(t, c) /\ HasCached(u, c)
        /\ ~Task(t).alone /\ ~Task(u).alone
        /\ Task(t).pc = "batch" /\ Task(t).i = batch_size
        /\ Task(u).pc = "batch" /\ Task(u).i = batch_size
        /\ CachedBy(t) # CachedBy(u)
        /\ IMAGE_CACHE[c] = CachedBy(u)
        /\ Rows(c)[1].document = split_text(u, Task(u).doc)[1]
        /\ Rows(c)[2].document = split_text(u, Task(u).doc)[2]

====
